---- MODULE Spec2Model ----
(***************************************************************************)
(* Prompt-Optimizer: the IndexedDB storage layer (services/dbService.ts),  *)
(* the session state of the App component and the report aggregation.      *)
(*                                                                         *)
(* The storage backend is IndexedDB.  A transaction is modelled as one     *)
(* atomic backend step (IndexedDB runs transactions with overlapping       *)
(* scopes one after the other, in the order they were created) that ends   *)
(* in one of the ways IndexedDB can end it:                                *)
(*   "commit"      the request succeeded and the transaction completed;    *)
(*   "constraint"  the request failed on the unique index (ConstraintError)*)
(*                 and the transaction aborted;                            *)
(*   "error"       the request failed for another reason and the           *)
(*                 transaction aborted (error event, then abort event);    *)
(*   "abort"       every request succeeded but the transaction could not   *)
(*                 be committed (abort event only, no error event).        *)
(***************************************************************************)
EXTENDS Integers, Sequences, FiniteSets, TLC

\* ------------------------------------------------------------------ bounds

\* Store calls started in one behaviour.
MaxCalls == 3
\* Backend failures ("error" or "abort" endings) injected in one behaviour.
MaxFaults == 1

\* Ticks of the clock in one calendar day (the resolution of the timestamps the
\* report is computed from).
TicksPerDay == 2
\* Consecutive calendar days "now" ranges over in the report, from FirstDay on.
NumDays == 37
\* Records in the histories the report is computed from.
MaxRecords == 2
\* User actions (clicks and inputs) on the App in one behaviour.
MaxActions == 3

\* --------------------------------------------------------------- constants

USER_STORE == "users"
HISTORY_STORE == "analysisHistory"
EXECUTION_STORE == "executionHistory"
StoreNames == {USER_STORE, HISTORY_STORE, EXECUTION_STORE}
DB_VERSION == 3
\* The object store of an earlier version that the upgrade deletes.
OBSOLETE_STORE == "usageReports"

\* The logical callers of the store API (two, to interleave two calls).
Callers == {"c1", "c2"}
\* The dbService calls of the App component, by call site.
LoadOrder == <<"loadUsers", "loadHistory", "loadExecutions">>
LoadCalls == {"loadUsers", "loadHistory", "loadExecutions"}
AppCalls == LoadCalls \cup {"handleAddUser", "handleAnalyze", "handleExecutePrompt",
                            "handleClearReport"}
CallIds == Callers \cup AppCalls

\* User names, with their spelling as UTF-16 code units.
Names == {"alice", "Bob", "bob", "Zoe"}
NameChars ==
    ("alice" :> <<97, 108, 105, 99, 101>>) @@ ("Bob" :> <<66, 111, 98>>) @@
    ("bob" :> <<98, 111, 98>>) @@ ("Zoe" :> <<90, 111, 101>>)

\* The values Date.now() takes.
Times == {0, 1}

\* Token counts the generation service reports: the rewrite may be shorter or longer.
AnalysisResults ==
    {[originalTokenCount |-> 5, optimizedTokenCount |-> 2, optimizedPrompt |-> "hi"],
     [originalTokenCount |-> 2, optimizedTokenCount |-> 5, optimizedPrompt |-> "  "]}

\* Prompt texts, with their spelling as UTF-16 code units.
Prompts == {"", "  ", "hi"}
PromptChars == ("" :> <<>>) @@ ("  " :> <<32, 32>>) @@ ("hi" :> <<104, 105>>)

\* ------------------------------------------------------------------- state

VARIABLES
    db,                \* dbService.ts: let db (0 = not opened yet, else the connection)
    dbVersion,         \* the version of the persisted database (0 = no database)
    objectStoreNames,  \* the object stores the persisted database has
    upgrades,          \* history: upgrade passes (onupgradeneeded) run so far
    opens,             \* number of indexedDB.open requests issued
    openQueue,         \* open requests not yet answered, oldest first
    txQueue,           \* transactions created and not yet run, oldest first
    objectStores,      \* the records of each object store, in key order
    keyGen,            \* the key generator (autoIncrement) of each object store
    calls,             \* the dbService call of each caller: its promise and transaction
    clock,             \* Date.now()
    nCalls,            \* calls started so far
    faults,            \* backend failures injected so far
    assigned,          \* history: the ids committed to each object store so far
    addedUsers,        \* history: the profiles committed since the last committed clear
    lastWrite,         \* history: kind of the last committed write ("none", "add", "clear")
    generation,        \* history: number of committed clearAllData transactions
    rNow,              \* calculateReportData: new Date() at the call
    rHistory,          \* calculateReportData: the analysisHistory argument
    rExecHistory,      \* calculateReportData: the executionHistory argument
    rPeriod,           \* calculateReportData: the period argument ("" before the call)
    report,            \* calculateReportData: the FullReport returned, in key order
    exported,          \* exportReportToCsv: what the last call did (alert, download)
    prompt,            \* App state: the prompt text
    users,             \* App state: the profiles
    currentUser,       \* App state: the selected user name ('' when none)
    analysisHistory,   \* App state
    executionHistory,  \* App state
    result,            \* App state: <<>> for null, else <<the AnalysisResult>>
    isLoading,         \* App state
    error,             \* App state ("" for null)
    isReportVisible,   \* App state
    isExecuting,       \* App state ("" for null, else "original" or "optimized")
    executionResult,   \* App state ("" for null)
    executionError,    \* App state ("" for null)
    isAdding,          \* UserManagement state
    analyzing,         \* the run of handleAnalyze in progress: where it is, its closure
    executing,         \* the run of handleExecutePrompt in progress
    aiCalls,           \* history: calls made to the generation client
    nActions,          \* history: user actions so far
    lastAction         \* history: the last user action, with the text it was given

storeVars == <<objectStores, keyGen>>
histVars == <<assigned, addedUsers, lastWrite, generation>>
schemaVars == <<dbVersion, objectStoreNames, upgrades>>
dbVars == <<db, schemaVars, opens, openQueue, txQueue, objectStores, keyGen, calls,
            clock, nCalls, faults, assigned, addedUsers, lastWrite, generation>>
reportVars == <<rNow, rHistory, rExecHistory, rPeriod, report, exported>>
memoryVars == <<users, currentUser, analysisHistory, executionHistory>>
analyzeVars == <<result, isLoading, error, analyzing>>
executeVars == <<isExecuting, executionResult, executionError, executing>>
actionVars == <<nActions, lastAction>>
appVars == <<prompt, isReportVisible, memoryVars, analyzeVars, executeVars, isAdding,
             aiCalls, actionVars>>
vars == <<dbVars, reportVars, appVars>>

userStore == objectStores[USER_STORE]
historyStore == objectStores[HISTORY_STORE]
executionStore == objectStores[EXECUTION_STORE]

\* ----------------------------------------------------------------- helpers

Range(s) == {s[i] : i \in 1..Len(s)}

NoArg == [name |-> "", username |-> "", originalTokenCount |-> 0,
          optimizedTokenCount |-> 0, promptType |-> "", promptText |-> "",
          resultText |-> ""]

\* A call that has not been made: no promise, no transaction.
IdleCall == [op |-> "none", arg |-> NoArg, state |-> "idle", outcome |-> "none",
             settle |-> "none", result |-> <<>>, at |-> 0, gen |-> 0]

\* ------------------------------------------ getAllUsers: sort by localeCompare

Min(a, b) == IF a < b THEN a ELSE b

\* Lexicographic order on sequences of numbers; a proper prefix comes first.
LexLess(s, t) ==
    \E i \in 1..(Min(Len(s), Len(t)) + 1) :
        /\ \A j \in 1..(i - 1) : s[j] = t[j]
        /\ \/ i > Len(s) /\ i <= Len(t)
           \/ i <= Len(s) /\ i <= Len(t) /\ s[i] < t[i]

IsUpper(cu) == cu >= 65 /\ cu <= 90
\* Collation weights of a letter: the letter itself (primary), then its case
\* (tertiary, lower case first).
PrimaryWeight(cu) == IF IsUpper(cu) THEN cu - 65 ELSE cu - 97
TertiaryWeight(cu) == IF IsUpper(cu) THEN 1 ELSE 0
PrimaryKey(n) == [i \in 1..Len(NameChars[n]) |-> PrimaryWeight(NameChars[n][i])]
TertiaryKey(n) == [i \in 1..Len(NameChars[n]) |-> TertiaryWeight(NameChars[n][i])]

\* A comparison by UTF-16 code units (what a < b does on strings).
CodeUnitCompare(a, b) ==
    IF LexLess(NameChars[a], NameChars[b]) THEN -1
    ELSE IF LexLess(NameChars[b], NameChars[a]) THEN 1 ELSE 0

\* a.localeCompare(b): primary differences decide before case differences.
localeCompare(a, b) ==
    IF LexLess(PrimaryKey(a), PrimaryKey(b)) THEN -1
    ELSE IF LexLess(PrimaryKey(b), PrimaryKey(a)) THEN 1
    ELSE IF LexLess(TertiaryKey(a), TertiaryKey(b)) THEN -1
    ELSE IF LexLess(TertiaryKey(b), TertiaryKey(a)) THEN 1
    ELSE 0

\* Array.prototype.sort with the comparator (a, b) => a.name.localeCompare(b.name):
\* a stable sort, here by insertion.
InsertByName(r, sorted) ==
    LET k == Cardinality({i \in 1..Len(sorted) : localeCompare(sorted[i].name, r.name) <= 0})
    IN  SubSeq(sorted, 1, k) \o <<r>> \o SubSeq(sorted, k + 1, Len(sorted))

RECURSIVE SortByName(_)
SortByName(list) ==
    IF list = <<>> THEN <<>>
    ELSE InsertByName(list[Len(list)], SortByName(SubSeq(list, 1, Len(list) - 1)))

\* ------------------------------------------------------ transactions' scopes

AddOps == {"addUser", "addAnalysisRecord", "addExecutionRecord"}
ReadOps == {"getAllUsers", "getAllHistory", "getAllExecutionHistory"}

\* db.transaction(<scope>, <mode>) of each function.
Scope(op) ==
    CASE op \in {"addUser", "getAllUsers"} -> {USER_STORE}
      [] op \in {"addAnalysisRecord", "getAllHistory"} -> {HISTORY_STORE}
      [] op \in {"addExecutionRecord", "getAllExecutionHistory"} -> {EXECUTION_STORE}
      [] op = "clearAllData" -> {USER_STORE, HISTORY_STORE, EXECUTION_STORE}
      [] OTHER -> {}

ReadWrite(op) == op \in AddOps \cup {"clearAllData"}

\* IndexedDB starts a transaction only when no older one whose scope overlaps
\* is still to run, unless both only read.
Conflict(a, b) ==
    /\ Scope(calls[a].op) \cap Scope(calls[b].op) # {}
    /\ ReadWrite(calls[a].op) \/ ReadWrite(calls[b].op)

Runnable(c) ==
    \E i \in 1..Len(txQueue) :
        /\ txQueue[i] = c
        /\ \A j \in 1..(i - 1) : ~Conflict(txQueue[j], c)

Without(q, c) == SelectSeq(q, LAMBDA x : x # c)

\* -------------------------------------------------------------- dbService

\* The page is loaded: no connection yet, the database holds what earlier
\* sessions left in it.
ClosedOn(version, names, stores) ==
    /\ db = 0
    /\ dbVersion = version
    /\ objectStoreNames = names
    /\ upgrades = 0
    /\ opens = 0
    /\ openQueue = <<>>
    /\ txQueue = <<>>
    /\ objectStores = stores
    /\ keyGen = [s \in StoreNames |-> Len(stores[s]) + 1]
    /\ calls = [c \in CallIds |-> IdleCall]
    /\ clock = 0
    /\ nCalls = 0
    /\ faults = 0
    /\ assigned = [s \in StoreNames |-> {stores[s][i].id : i \in 1..Len(stores[s])}]
    /\ addedUsers = Range(stores[USER_STORE])
    /\ lastWrite = "none"
    /\ generation = 0

\* No database yet when nothing is stored, else a database of this version.
Closed(stores) ==
    IF \A s \in StoreNames : stores[s] = <<>>
    THEN ClosedOn(0, {}, stores)
    ELSE ClosedOn(DB_VERSION, StoreNames, stores)

InitDB == Closed([s \in StoreNames |-> <<>>])

\* The caller has no call in flight (a promise that never settles blocks it).
CanCall(c) ==
    \/ calls[c].state = "idle"
    \/ calls[c].state = "done" /\ calls[c].settle \in {"resolved", "rejected"}

\* Date.now() as the add functions read it when they build their record: it
\* never runs backwards.  The other functions do not read the time.
Now(op, t) ==
    IF op \in AddOps
    THEN t >= clock /\ clock' = t
    ELSE t = 0 /\ UNCHANGED clock

\* The transaction of call c is created (the code after "await initDB()"); the
\* record of an add function is stamped with Date.now() = t.
Queued(c, op, arg, t) ==
    [IdleCall EXCEPT !.op = op, !.arg = arg, !.state = "queued",
                     !.settle = "pending", !.at = t]

\* The call awaits initDB(): indexedDB.open was issued.
Opening(op, arg) ==
    [IdleCall EXCEPT !.op = op, !.arg = arg, !.state = "opening", !.settle = "pending"]

\* A dbService function is called: initDB() resolves at once when db is set and
\* issues indexedDB.open otherwise.
Start(c, op, arg) ==
    /\ CanCall(c)
    /\ nCalls' = nCalls + 1
    /\ IF db # 0
       THEN /\ \E t \in Times :
                  /\ Now(op, t)
                  /\ calls' = [calls EXCEPT ![c] = Queued(c, op, arg, t)]
            /\ txQueue' = Append(txQueue, c)
            /\ UNCHANGED <<opens, openQueue>>
       ELSE /\ calls' = [calls EXCEPT ![c] = Opening(op, arg)]
            /\ opens' = opens + 1
            /\ openQueue' = Append(openQueue, c)
            /\ UNCHANGED <<txQueue, clock>>
    /\ UNCHANGED <<db, schemaVars, storeVars, faults, histVars>>

\* initDB: request.onupgradeneeded creates the object stores the database
\* lacks and deletes the obsolete one.
UpgradedKeepingObsolete(names) == names \cup StoreNames
onupgradeneeded(names) == (names \cup StoreNames) \ {OBSOLETE_STORE}

\* indexedDB.open(DB_NAME, DB_VERSION) is answered: the upgrade pass runs first
\* when the persisted version is lower.
Opened ==
    IF dbVersion < DB_VERSION
    THEN /\ dbVersion' = DB_VERSION
         /\ objectStoreNames' = onupgradeneeded(objectStoreNames)
         /\ upgrades' = upgrades + 1
    ELSE UNCHANGED schemaVars

\* initDB: request.onsuccess of the oldest open request sets db and resolves; the
\* awaiting function goes on and creates its transaction.
initDB_onsuccess ==
    /\ openQueue # <<>>
    /\ Opened
    /\ LET c == Head(openQueue) IN
        /\ db' = opens - Len(openQueue) + 1
        /\ openQueue' = Tail(openQueue)
        /\ \E t \in Times :
              /\ Now(calls[c].op, t)
              /\ calls' = [calls EXCEPT ![c] = Queued(c, calls[c].op, calls[c].arg, t)]
        /\ txQueue' = Append(txQueue, c)
    /\ UNCHANGED <<opens, storeVars, nCalls, faults, histVars>>

\* The transaction of call c has run: how it ended, how the promise settled.
Finish(c, outcome, settle, value) ==
    /\ calls' = [calls EXCEPT ![c].state = "done", ![c].outcome = outcome,
                              ![c].settle = settle, ![c].result = value,
                              ![c].gen = generation]
    /\ txQueue' = Without(txQueue, c)

Ready(c, op) ==
    /\ calls[c].op = op
    /\ calls[c].state = "queued"
    /\ Runnable(c)

\* A backend failure may be injected.
MayFail == faults < MaxFaults
Fail == faults' = faults + 1

\* The unique index 'name' of the users store holds the name already.
NameIndexNotUnique(name) == FALSE
NameIndexViolated(name) == \E i \in 1..Len(userStore) : userStore[i].name = name

\* store.add(record) commits: the key generator gives the key.
InsertOverLast(s, record) ==
    /\ objectStores' = [objectStores EXCEPT ![s] =
                           IF @ = <<>> THEN <<record>>
                           ELSE SubSeq(@, 1, Len(@) - 1) \o <<record>>]
    /\ keyGen' = [keyGen EXCEPT ![s] = @ + 1]
    /\ assigned' = [assigned EXCEPT ![s] = @ \cup {record.id}]
    /\ addedUsers' = IF s = USER_STORE THEN addedUsers \cup {record} ELSE addedUsers
    /\ lastWrite' = "add"
    /\ UNCHANGED generation
Insert(s, record) ==
    /\ objectStores' = [objectStores EXCEPT ![s] = Append(@, record)]
    /\ keyGen' = [keyGen EXCEPT ![s] = @ + 1]
    /\ assigned' = [assigned EXCEPT ![s] = @ \cup {record.id}]
    /\ addedUsers' = IF s = USER_STORE THEN addedUsers \cup {record} ELSE addedUsers
    /\ lastWrite' = "add"
    /\ UNCHANGED generation

\* The endings of an add transaction other than a ConstraintError.
AddTx(c, s, record) ==
    \/ /\ Insert(s, record)
       /\ Finish(c, "commit", "resolved", <<record>>)
       /\ UNCHANGED faults
    \/ /\ MayFail /\ Fail
       /\ Finish(c, "error", "rejected", <<>>)
       /\ UNCHANGED <<storeVars, histVars>>
    \/ /\ MayFail /\ Fail
       /\ Finish(c, "abort", "resolved", <<record>>)
       /\ UNCHANGED <<storeVars, histVars>>

\* --- addUser
addUser(c, name) == Start(c, "addUser", [NoArg EXCEPT !.name = name])

newUser(c) == [id |-> keyGen[USER_STORE], name |-> calls[c].arg.name,
               createdAt |-> calls[c].at]

addUserTx(c) ==
    /\ Ready(c, "addUser")
    /\ \/ /\ NameIndexViolated(calls[c].arg.name)
          /\ Finish(c, "constraint", "rejected", <<>>)
          /\ UNCHANGED <<storeVars, histVars, faults>>
       \/ /\ ~NameIndexViolated(calls[c].arg.name)
          /\ AddTx(c, USER_STORE, newUser(c))
    /\ UNCHANGED <<db, schemaVars, opens, openQueue, clock, nCalls>>

\* The endings of a read transaction: request.onsuccess or request.onerror.
ReadTx(c, list) ==
    /\ \/ /\ Finish(c, "commit", "resolved", list)
          /\ UNCHANGED faults
       \/ /\ MayFail /\ Fail
          /\ Finish(c, "error", "rejected", <<>>)
    /\ UNCHANGED <<storeVars, histVars>>

\* --- getAllUsers
getAllUsers(c) == Start(c, "getAllUsers", NoArg)

getAllUsersTx(c) ==
    /\ Ready(c, "getAllUsers")
    /\ ReadTx(c, SortByName(userStore))
    /\ UNCHANGED <<db, schemaVars, opens, openQueue, clock, nCalls>>

\* --- addAnalysisRecord
addAnalysisRecord(c, username, original, optimized) ==
    Start(c, "addAnalysisRecord",
          [NoArg EXCEPT !.username = username, !.originalTokenCount = original,
                        !.optimizedTokenCount = optimized])

ClampedSavings(analysisResult) ==
    IF analysisResult.originalTokenCount > analysisResult.optimizedTokenCount
    THEN analysisResult.originalTokenCount - analysisResult.optimizedTokenCount
    ELSE 0
Savings(analysisResult) ==
    analysisResult.originalTokenCount - analysisResult.optimizedTokenCount

analysisRecord(c) ==
    [id |-> keyGen[HISTORY_STORE],
     username |-> calls[c].arg.username,
     timestamp |-> calls[c].at,
     originalTokenCount |-> calls[c].arg.originalTokenCount,
     optimizedTokenCount |-> calls[c].arg.optimizedTokenCount,
     savings |-> Savings(calls[c].arg)]

addAnalysisRecordTx(c) ==
    /\ Ready(c, "addAnalysisRecord")
    /\ AddTx(c, HISTORY_STORE, analysisRecord(c))
    /\ UNCHANGED <<db, schemaVars, opens, openQueue, clock, nCalls>>

\* --- getAllHistory
getAllHistory(c) == Start(c, "getAllHistory", NoArg)

getAllHistoryTx(c) ==
    /\ Ready(c, "getAllHistory")
    /\ ReadTx(c, historyStore)
    /\ UNCHANGED <<db, schemaVars, opens, openQueue, clock, nCalls>>

\* --- addExecutionRecord
addExecutionRecord(c, username, promptType, promptText, resultText) ==
    Start(c, "addExecutionRecord",
          [NoArg EXCEPT !.username = username, !.promptType = promptType,
                        !.promptText = promptText, !.resultText = resultText])

executionRecord(c) ==
    [id |-> keyGen[EXECUTION_STORE],
     username |-> calls[c].arg.username,
     timestamp |-> calls[c].at,
     promptType |-> calls[c].arg.promptType,
     promptText |-> calls[c].arg.promptText,
     resultText |-> calls[c].arg.resultText]

addExecutionRecordTx(c) ==
    /\ Ready(c, "addExecutionRecord")
    /\ AddTx(c, EXECUTION_STORE, executionRecord(c))
    /\ UNCHANGED <<db, schemaVars, opens, openQueue, clock, nCalls>>

\* --- getAllExecutionHistory
getAllExecutionHistory(c) == Start(c, "getAllExecutionHistory", NoArg)

getAllExecutionHistoryTx(c) ==
    /\ Ready(c, "getAllExecutionHistory")
    /\ ReadTx(c, executionStore)
    /\ UNCHANGED <<db, schemaVars, opens, openQueue, clock, nCalls>>

\* --- clearAllData
clearAllData(c) == Start(c, "clearAllData", NoArg)

\* What userStore.clear(), historyStore.clear() and executionStore.clear() leave.
ClearedButExecutions(stores) == [stores EXCEPT ![USER_STORE] = <<>>, ![HISTORY_STORE] = <<>>]
Cleared(stores) == [s \in StoreNames |-> <<>>]

\* IDBObjectStore.clear() leaves the key generator of the store as it is.
KeyGenReset(k) == [s \in StoreNames |-> 1]
KeyGenAfterClear(k) == k

\* transaction.oncomplete resolves, transaction.onerror rejects; there is no
\* transaction.onabort, so an abort without an error event settles nothing.
clearAllDataTx(c) ==
    /\ Ready(c, "clearAllData")
    /\ \/ /\ objectStores' = Cleared(objectStores)
          /\ keyGen' = KeyGenAfterClear(keyGen)
          /\ lastWrite' = "clear"
          /\ generation' = generation + 1
          /\ Finish(c, "commit", "resolved", <<>>)
          /\ addedUsers' = {}
          /\ UNCHANGED <<assigned, faults>>
       \/ /\ MayFail /\ Fail
          /\ Finish(c, "error", "rejected", <<>>)
          /\ UNCHANGED <<storeVars, histVars>>
       \/ /\ MayFail /\ Fail
          /\ Finish(c, "abort", "pending", <<>>)
          /\ UNCHANGED <<storeVars, histVars>>
    /\ UNCHANGED <<db, schemaVars, opens, openQueue, clock, nCalls>>

\* ------------------------------------------- the store under logical callers

\* The second caller calls while the first has a call in flight (the callers are
\* interchangeable, so nothing else is lost).
InFlight(c) == calls[c].state \in {"opening", "queued"}
MayCall(c) == nCalls < MaxCalls /\ (c = "c1" \/ InFlight("c1"))

\* No report is being computed.
NoExport == [alert |-> "", download |-> <<>>]
NoReport ==
    /\ rNow = 0
    /\ rHistory = <<>>
    /\ rExecHistory = <<>>
    /\ rPeriod = ""
    /\ report = <<>>
    /\ exported = NoExport

\* The App component is not mounted: its state is what useState gives it.
NoRun == [state |-> "idle", user |-> "", prompt |-> "", type |-> ""]
NoAction == [handler |-> "", text |-> ""]
NoSession ==
    /\ prompt = ""
    /\ users = <<>>
    /\ currentUser = ""
    /\ analysisHistory = <<>>
    /\ executionHistory = <<>>
    /\ result = <<>>
    /\ isLoading = TRUE
    /\ error = ""
    /\ isReportVisible = FALSE
    /\ isExecuting = ""
    /\ executionResult = ""
    /\ executionError = ""
    /\ isAdding = FALSE
    /\ analyzing = NoRun
    /\ executing = NoRun
    /\ aiCalls = 0
    /\ nActions = 0
    /\ lastAction = NoAction

idleVars == <<reportVars, appVars>>

Init == InitDB /\ NoReport /\ NoSession

Next ==
    \/ \E c \in Callers, n \in Names :
           MayCall(c) /\ addUser(c, n) /\ UNCHANGED idleVars
    \/ \E c \in Callers : MayCall(c) /\ getAllUsers(c) /\ UNCHANGED idleVars
    \/ \E c \in Callers, r \in AnalysisResults :
           /\ MayCall(c)
           /\ addAnalysisRecord(c, "alice", r.originalTokenCount, r.optimizedTokenCount)
           /\ UNCHANGED idleVars
    \/ \E c \in Callers : MayCall(c) /\ getAllHistory(c) /\ UNCHANGED idleVars
    \/ \E c \in Callers :
           /\ MayCall(c)
           /\ addExecutionRecord(c, "alice", "original", "hi", "ok")
           /\ UNCHANGED idleVars
    \/ \E c \in Callers : MayCall(c) /\ getAllExecutionHistory(c) /\ UNCHANGED idleVars
    \/ \E c \in Callers : MayCall(c) /\ clearAllData(c) /\ UNCHANGED idleVars
    \/ initDB_onsuccess /\ UNCHANGED idleVars
    \/ \E c \in Callers : addUserTx(c) /\ UNCHANGED idleVars
    \/ \E c \in Callers : getAllUsersTx(c) /\ UNCHANGED idleVars
    \/ \E c \in Callers : addAnalysisRecordTx(c) /\ UNCHANGED idleVars
    \/ \E c \in Callers : getAllHistoryTx(c) /\ UNCHANGED idleVars
    \/ \E c \in Callers : addExecutionRecordTx(c) /\ UNCHANGED idleVars
    \/ \E c \in Callers : getAllExecutionHistoryTx(c) /\ UNCHANGED idleVars
    \/ \E c \in Callers : clearAllDataTx(c) /\ UNCHANGED idleVars

Spec == Init /\ [][Next]_vars

\* ===================================================== claims on the store

\* The transaction of call c runs in this step.
Runs(c) == calls[c].state = "queued" /\ calls'[c].state = "done"

NoDuplicateNames ==
    \A i, j \in 1..Len(userStore) : userStore[i].name = userStore[j].name => i = j

\* C1: no two profiles of the users store have the same name (exact match, so
\* "Bob" and "bob" are two names).  addUser(n) is rejected when a stored profile
\* is named n, and then the store is unchanged; it resolves when none is, unless
\* the backend fails the request; a committed addUser appends the one profile
\* it returns.
C1_UniqueNames ==
    /\ []NoDuplicateNames
    /\ [][\A c \in CallIds :
            (calls[c].op = "addUser" /\ Runs(c)) =>
                LET n == calls[c].arg.name
                    taken == \E r \in Range(userStore) : r.name = n
                    after == calls'[c]
                IN  /\ taken => after.settle = "rejected"
                    /\ after.settle = "rejected" => userStore' = userStore
                    /\ ~taken => (after.settle = "resolved" \/ after.outcome = "error")
                    /\ after.outcome = "commit" =>
                          /\ after.result[1].name = n
                          /\ userStore' = Append(userStore, after.result[1])]_vars

\* C1 witness: a second addUser of a stored name was rejected, next to a name
\* that differs from another stored one only in case.
C1_Witness ==
    /\ \E c \in CallIds : calls[c].op = "addUser" /\ calls[c].outcome = "constraint"
    /\ {"Bob", "bob"} \subseteq {r.name : r \in Range(userStore)}

\* A call succeeded: its promise resolved and its transaction committed.
Succeeded(c) ==
    calls[c].state = "done" /\ calls[c].settle = "resolved" /\ calls[c].outcome = "commit"

\* C2: of two addUser calls with the same name whose steps interleave, at most
\* one succeeds (with no clearAllData between the two), and the users store
\* never holds that name twice.
C2_ConcurrentAddUser ==
    /\ \A a, b \in CallIds :
          ( /\ a # b
            /\ calls[a].op = "addUser" /\ calls[b].op = "addUser"
            /\ calls[a].arg.name = calls[b].arg.name
            /\ calls[a].gen = calls[b].gen
            /\ Succeeded(a) ) => ~Succeeded(b)
    /\ \A n \in Names : Cardinality({i \in 1..Len(userStore) : userStore[i].name = n}) <= 1

\* C2 witness: the only two calls made were addUser("bob") by both callers, the
\* second made while the first was in flight; one resolved, one was rejected.
C2_Witness ==
    /\ nCalls = 2
    /\ \A c \in Callers : calls[c].op = "addUser" /\ calls[c].arg.name = "bob"
                          /\ calls[c].state = "done"
    /\ \E c \in Callers : Succeeded(c)
    /\ \E c \in Callers : calls[c].outcome = "constraint" /\ calls[c].settle = "rejected"

StoreOf(op) ==
    CASE op = "addUser" -> USER_STORE
      [] op = "addAnalysisRecord" -> HISTORY_STORE
      [] op = "addExecutionRecord" -> EXECUTION_STORE

\* C3: in each object store the id of every add that commits is greater than
\* every id committed to that store before, also before a clearAllData; and the
\* ids held by a store are among those assigned to it, each once.
C3_IdsNeverReused ==
    /\ [][\A c \in CallIds :
            (calls[c].op \in AddOps /\ Runs(c) /\ calls'[c].outcome = "commit") =>
                \A i \in assigned[StoreOf(calls[c].op)] : calls'[c].result[1].id > i]_vars
    /\ [](\A s \in StoreNames :
            /\ \A i \in 1..Len(objectStores[s]) : objectStores[s][i].id \in assigned[s]
            /\ \A i, j \in 1..Len(objectStores[s]) :
                  objectStores[s][i].id = objectStores[s][j].id => i = j)

\* C3 witness: a store emptied by clearAllData holds a record again, with id 2.
C3_Witness ==
    /\ generation = 1
    /\ \E s \in StoreNames :
          /\ assigned[s] = {1, 2}
          /\ Len(objectStores[s]) = 1
          /\ objectStores[s][1].id = 2

\* C4: when the transaction of clearAllData has run, either the call resolved
\* and the three stores are empty, or it was rejected and the three stores hold
\* what they held; whichever way the transaction ended, the call has settled.
C4_ClearAtomicAndSettles ==
    [][\A c \in CallIds :
         (calls[c].op = "clearAllData" /\ Runs(c)) =>
             \/ /\ calls'[c].settle = "resolved"
                /\ \A s \in StoreNames : objectStores'[s] = <<>>
             \/ /\ calls'[c].settle = "rejected"
                /\ objectStores' = objectStores]_vars

\* C5: a read whose transaction runs when the last committed write is a
\* clearAllData resolves with the empty list, unless the backend fails the read.
C5_EmptyAfterClear ==
    [][\A c \in CallIds :
         (calls[c].op \in ReadOps /\ Runs(c) /\ lastWrite = "clear"
             /\ calls'[c].outcome # "error") =>
             calls'[c].settle = "resolved" /\ calls'[c].result = <<>>]_vars

\* C5 witness: records were added, clearAllData committed, and a read that ran
\* after it resolved with the empty list.
C5_Witness ==
    /\ lastWrite = "clear"
    /\ \E s \in StoreNames : assigned[s] # {}
    /\ \E c \in CallIds : /\ calls[c].op \in ReadOps
                          /\ Succeeded(c)
                          /\ calls[c].gen = 1
                          /\ calls[c].result = <<>>

\* The locale-aware order of the names (CLDR root collation: letters first,
\* lower case before upper case among equal letters).
LocaleRank == ("alice" :> 1) @@ ("bob" :> 2) @@ ("Bob" :> 3) @@ ("Zoe" :> 4)

\* C7: getAllUsers resolves with exactly the profiles the users store holds,
\* which are the profiles added since the last clearAllData, each once, in
\* ascending locale order of their names.
C7_GetAllUsersSorted ==
    [][\A c \in CallIds :
         (calls[c].op = "getAllUsers" /\ Runs(c) /\ calls'[c].settle = "resolved") =>
             LET list == calls'[c].result
             IN  /\ Range(list) = Range(userStore)
                 /\ Range(list) = addedUsers
                 /\ Len(list) = Cardinality(addedUsers)
                 /\ \A i, j \in 1..Len(list) :
                       i < j => LocaleRank[list[i].name] < LocaleRank[list[j].name]]_vars

\* C7 witness: "Bob" was added before "alice", and getAllUsers returned alice
\* first.
C7_Witness ==
    \E c \in CallIds :
        /\ calls[c].op = "getAllUsers" /\ Succeeded(c)
        /\ Len(calls[c].result) = 2
        /\ calls[c].result[1].name = "alice" /\ calls[c].result[1].id = 2
        /\ calls[c].result[2].name = "Bob" /\ calls[c].result[2].id = 1

\* C8: the record addAnalysisRecord returns and stores has savings = original -
\* optimized token count of the result it was given, negative when the rewrite is
\* longer; every record of the store and every record a getAllHistory returned
\* carries that value, and a returned list holds the record as it was returned
\* by the add.
C8_SavingsFixedAtWrite ==
    /\ \A c \in CallIds :
          (calls[c].op = "addAnalysisRecord" /\ calls[c].state = "done"
              /\ calls[c].settle = "resolved") =>
              /\ calls[c].result[1].savings =
                    calls[c].arg.originalTokenCount - calls[c].arg.optimizedTokenCount
              /\ calls[c].result[1].originalTokenCount = calls[c].arg.originalTokenCount
              /\ calls[c].result[1].optimizedTokenCount = calls[c].arg.optimizedTokenCount
    /\ \A r \in Range(historyStore) :
          r.savings = r.originalTokenCount - r.optimizedTokenCount
    /\ \A b \in CallIds :
          (calls[b].op = "getAllHistory" /\ calls[b].state = "done") =>
              /\ \A r \in Range(calls[b].result) :
                    r.savings = r.originalTokenCount - r.optimizedTokenCount
              /\ \A a \in CallIds :
                    (calls[a].op = "addAnalysisRecord" /\ Succeeded(a)
                        /\ calls[a].gen = calls[b].gen) =>
                        \A r \in Range(calls[b].result) :
                            r.id = calls[a].result[1].id => r = calls[a].result[1]

\* C8 witness: an add of a longer rewrite (savings -3) committed, and a later
\* getAllHistory returned its record.
C8_Witness ==
    \E a, b \in CallIds :
        /\ calls[a].op = "addAnalysisRecord" /\ Succeeded(a)
        /\ calls[a].result[1].savings = -3
        /\ calls[b].op = "getAllHistory" /\ Succeeded(b)
        /\ calls[a].result[1] \in Range(calls[b].result)

\* ================================================== calculateReportData

\* --- the calendar of Date (local time, no daylight-saving change)

IsLeapYear(y) == (y % 4 = 0 /\ y % 100 # 0) \/ y % 400 = 0
DaysInMonth(y, m) ==
    IF m = 1 THEN (IF IsLeapYear(y) THEN 29 ELSE 28)
    ELSE IF m \in {3, 5, 8, 10} THEN 30 ELSE 31
LeapDaysBefore(y) == ((y - 1) \div 4) - ((y - 1) \div 100) + ((y - 1) \div 400)
\* Days from 1 January 1970 to 1 January of year y.
DaysBeforeYear(y) == 365 * (y - 1970) + LeapDaysBefore(y) - LeapDaysBefore(1970)
RECURSIVE DaysBeforeMonth(_, _)
DaysBeforeMonth(y, m) ==
    IF m = 0 THEN 0 ELSE DaysBeforeMonth(y, m - 1) + DaysInMonth(y, m - 1)
\* The day (counted from 1 January 1970) of year y, month m (0 = January), day
\* of month d; a d below 1 runs into the month before, as Date does.
DayNumber(y, m, d) == DaysBeforeYear(y) + DaysBeforeMonth(y, m) + d - 1

\* 30 December 2023, a Saturday: the days from it on hold a Sunday that ends a
\* year, 1 January, 1 February and the Sundays between.
FirstDay == DayNumber(2023, 11, 30)
Years == 2022..2025
\* The civil date of each day "now" can fall on.
YearOfDay(n) ==
    CHOOSE y \in Years : DaysBeforeYear(y) <= n /\ n < DaysBeforeYear(y + 1)
MonthOfDay(n) ==
    CHOOSE m \in 0..11 :
        /\ DayNumber(YearOfDay(n), m, 1) <= n
        /\ n < DayNumber(YearOfDay(n), m, 1) + DaysInMonth(YearOfDay(n), m)
Civil == [n \in FirstDay..(FirstDay + NumDays) |->
            [year |-> YearOfDay(n), month |-> MonthOfDay(n),
             date |-> n - DayNumber(YearOfDay(n), MonthOfDay(n), 1) + 1]]

DayOf(t) == t \div TicksPerDay
getFullYear(t) == Civil[DayOf(t)].year
getMonth(t) == Civil[DayOf(t)].month
getDate(t) == Civil[DayOf(t)].date
\* 0 = Sunday; 1 January 1970 was a Thursday.
getDay(t) == (DayOf(t) + 4) % 7

\* new Date(y, m, d).getTime(): local midnight of that day.
DateAt(y, m, d) == DayNumber(y, m, d) * TicksPerDay

Periods == {"day", "week", "month", "year", "all"}

\* A window of the last seven days, the last thirty, the last 365.
RollingStart(period, now) ==
    CASE period = "day" -> DayOf(now) * TicksPerDay
      [] period = "week" -> (DayOf(now) - 7) * TicksPerDay
      [] period = "month" -> (DayOf(now) - 30) * TicksPerDay
      [] period = "year" -> (DayOf(now) - 365) * TicksPerDay
      [] OTHER -> 0
\* The switch on period: startDate.getTime().
startTime(period, now) ==
    CASE period = "day" -> DateAt(getFullYear(now), getMonth(now), getDate(now))
      [] period = "week" ->
            DateAt(getFullYear(now), getMonth(now), getDate(now) - getDay(now))
      [] period = "month" -> DateAt(getFullYear(now), getMonth(now), 1)
      [] period = "year" -> DateAt(getFullYear(now), 0, 1)
      [] OTHER -> 0

\* Array.prototype.filter(record => record.timestamp >= startTime)
FilterAfter(list, start) == SelectSeq(list, LAMBDA record : record.timestamp > start)
FilterFrom(list, start) == SelectSeq(list, LAMBDA record : record.timestamp >= start)

\* initializeUserReport: a new key goes after the keys the report has.
HasKey(rep, username) == \E i \in 1..Len(rep) : rep[i].username = username
initializeUserReport(rep, username) ==
    IF HasKey(rep, username) THEN rep
    ELSE Append(rep, [username |-> username, totalPrompts |-> 0,
                      totalOriginalTokens |-> 0, totalOptimizedTokens |-> 0,
                      totalSavings |-> 0, totalExecutions |-> 0,
                      estimatedCostSavings |-> 0])

KeyIndex(rep, username) == CHOOSE i \in 1..Len(rep) : rep[i].username = username

\* The body of the loop over filteredAnalysisHistory.
AddAnalysis(rep0, record) ==
    LET rep == initializeUserReport(rep0, record.username)
        i == KeyIndex(rep, record.username)
    IN  [rep EXCEPT ![i].totalPrompts = @ + 1,
                    ![i].totalOriginalTokens = @ + record.originalTokenCount,
                    ![i].totalOptimizedTokens = @ + record.optimizedTokenCount,
                    ![i].totalSavings = @ + record.savings]

\* The body of the loop over filteredExecHistory.
AddExecutionToKnownUser(rep0, record) ==
    IF HasKey(rep0, record.username)
    THEN [rep0 EXCEPT ![KeyIndex(rep0, record.username)].totalExecutions = @ + 1]
    ELSE rep0
AddExecution(rep0, record) ==
    LET rep == initializeUserReport(rep0, record.username)
        i == KeyIndex(rep, record.username)
    IN  [rep EXCEPT ![i].totalExecutions = @ + 1]

RECURSIVE FoldAnalysis(_, _)
FoldAnalysis(rep, list) ==
    IF list = <<>> THEN rep ELSE FoldAnalysis(AddAnalysis(rep, Head(list)), Tail(list))

RECURSIVE FoldExecutions(_, _)
FoldExecutions(rep, list) ==
    IF list = <<>> THEN rep ELSE FoldExecutions(AddExecution(rep, Head(list)), Tail(list))

\* estimatedCostSavings = (totalSavings / 1_000_000) * COST_PER_MILLION_TOKENS, kept
\* exactly, in units of 10^-8 dollars: totalSavings * 35.
CostSavings(rep) == [i \in 1..Len(rep) |-> [rep[i] EXCEPT !.estimatedCostSavings =
                                               rep[i].totalSavings * 35]]

calculateReportData(analysisRecords, executionRecords, period, now) ==
    LET start == startTime(period, now)
    IN  CostSavings(FoldExecutions(FoldAnalysis(<<>>, FilterFrom(analysisRecords, start)),
                                   FilterFrom(executionRecords, start)))

\* --- the report computed from histories of records, at every "now"

NowValues == {d * TicksPerDay + k : d \in FirstDay..(FirstDay + NumDays - 1),
                                    k \in 0..(TicksPerDay - 1)}

\* The timestamps of the records: the first and the last tick of yesterday, the
\* first tick of today, and the day eight days ago.
RecordTimes(now) ==
    { (DayOf(now) - 1) * TicksPerDay, DayOf(now) * TicksPerDay - 1,
      DayOf(now) * TicksPerDay, (DayOf(now) - 8) * TicksPerDay }

ReportUsers == {"alice", "Bob"}

InitReport ==
    /\ InitDB
    /\ NoSession
    /\ rNow \in NowValues
    /\ rHistory = <<>>
    /\ rExecHistory = <<>>
    /\ rPeriod = ""
    /\ report = <<>>
    /\ exported = NoExport

\* What the generation service reported for the prompts of each user: a shorter
\* rewrite for one, a longer one for the other.
ResultFor(u) ==
    IF u = "alice" THEN [originalTokenCount |-> 5, optimizedTokenCount |-> 2]
    ELSE [originalTokenCount |-> 2, optimizedTokenCount |-> 5]

\* The records of a history were created one after the other.
InOrder(list, t) == IF list = <<>> THEN TRUE ELSE list[Len(list)].timestamp <= t

\* A record as addAnalysisRecord built it at time t is in the history.
RecordAnalysis(u, t, r) ==
    /\ rPeriod = ""
    /\ Len(rHistory) + Len(rExecHistory) < MaxRecords
    /\ t \in RecordTimes(rNow)
    /\ InOrder(rHistory, t)
    /\ rHistory' = Append(rHistory,
           [id |-> Len(rHistory) + 1, username |-> u, timestamp |-> t,
            originalTokenCount |-> r.originalTokenCount,
            optimizedTokenCount |-> r.optimizedTokenCount,
            savings |-> Savings(r)])
    /\ UNCHANGED <<dbVars, appVars, rNow, rExecHistory, rPeriod, report, exported>>

\* A record as addExecutionRecord built it at time t is in the history.
RecordExecution(u, t) ==
    /\ rPeriod = ""
    /\ Len(rHistory) + Len(rExecHistory) < MaxRecords
    /\ t \in RecordTimes(rNow)
    /\ InOrder(rExecHistory, t)
    /\ rExecHistory' = Append(rExecHistory,
           [id |-> Len(rExecHistory) + 1, username |-> u, timestamp |-> t,
            promptType |-> "original", promptText |-> "hi", resultText |-> "ok"])
    /\ UNCHANGED <<dbVars, appVars, rNow, rHistory, rPeriod, report, exported>>

\* UsageReport: useMemo(() => calculateReportData(history, executionHistory, period))
Calculate(period) ==
    /\ rPeriod # period
    /\ rPeriod' = period
    /\ report' = calculateReportData(rHistory, rExecHistory, period, rNow)
    /\ UNCHANGED <<dbVars, appVars, rNow, rHistory, rExecHistory, exported>>

NextReport ==
    \/ \E u \in ReportUsers : \E t \in RecordTimes(rNow) : RecordAnalysis(u, t, ResultFor(u))
    \/ \E u \in ReportUsers : \E t \in RecordTimes(rNow) : RecordExecution(u, t)
    \/ \E period \in Periods : Calculate(period)

SpecReport == InitReport /\ [][NextReport]_vars

\* --- exportReportToCsv

\* The header row.
headers == <<"User", "Total Prompts", "Total Executions", "Total Original Tokens",
             "Total Optimized Tokens", "Total Savings", "Estimated Cost Savings ($)">>

\* `"${user.replace(/"/g, '""')}"`, as code units: quotes doubled, then quoted.
RECURSIVE DoubleQuotes(_)
DoubleQuotes(chars) ==
    IF chars = <<>> THEN <<>>
    ELSE (IF Head(chars) = 34 THEN <<34, 34>> ELSE <<Head(chars)>>)
         \o DoubleQuotes(Tail(chars))
Quoted(user) == <<34>> \o DoubleQuotes(NameChars[user]) \o <<34>>

\* estimatedCostSavings.toFixed(6): the amount (kept in 10^-8 dollars) rounded to
\* 10^-6 dollars.
toFixed6(amount) ==
    IF amount >= 0 THEN (amount + 50) \div 100 ELSE 0 - ((50 - amount) \div 100)

\* One row of the table, from an entry of the report.
Row(userData) ==
    <<Quoted(userData.username), userData.totalPrompts, userData.totalExecutions,
      userData.totalOriginalTokens, userData.totalOptimizedTokens,
      userData.totalSavings, toFixed6(userData.estimatedCostSavings)>>

\* What the call does: the alert it shows, the lines of the file it has the
\* browser download (none when it returns early).
exportAlways(data) ==
    [alert |-> "", download |-> <<headers>> \o [i \in 1..Len(data) |-> Row(data[i])]]
exportReportToCsv(data) ==
    IF Len(data) = 0
    THEN [alert |-> "No data to export.", download |-> <<>>]
    ELSE [alert |-> "",
          download |-> <<headers>> \o [i \in 1..Len(data) |-> Row(data[i])]]

\* "Export to CSV" is clicked in the report (the button is there when the
\* analysis history is not empty).
Export ==
    /\ rPeriod # ""
    /\ Len(rHistory) > 0
    /\ exported = NoExport
    /\ exported' = exportReportToCsv(report)
    /\ UNCHANGED <<dbVars, appVars, rNow, rHistory, rExecHistory, rPeriod, report>>

\* The report is exported on one day; the histories are as in the report above.
InitExport == InitReport /\ \A now \in NowValues : rNow <= now

NextExport ==
    \/ \E u \in ReportUsers : \E t \in RecordTimes(rNow) : RecordAnalysis(u, t, ResultFor(u))
    \/ \E u \in ReportUsers : \E t \in RecordTimes(rNow) : RecordExecution(u, t)
    \/ \E period \in Periods : exported = NoExport /\ Calculate(period)
    \/ Export

SpecExport == InitExport /\ [][NextExport]_vars

\* ==================================================== claims on the report

Yesterday(t) == DayOf(t) = DayOf(rNow) - 1
AnalysesOf(u) == {i \in 1..Len(rHistory) : rHistory[i].username = u}
ExecutionsOf(u) == {i \in 1..Len(rExecHistory) : rExecHistory[i].username = u}

\* Every record of user u is of the previous calendar day, and there is one.
OnlyYesterday(u) ==
    /\ AnalysesOf(u) \cup ExecutionsOf(u) # {}
    /\ \A i \in AnalysesOf(u) : Yesterday(rHistory[i].timestamp)
    /\ \A i \in ExecutionsOf(u) : Yesterday(rExecHistory[i].timestamp)

\* The report counts every record of u, or has no entry for u.
AllCounted(u) ==
    \E i \in 1..Len(report) :
        /\ report[i].username = u
        /\ report[i].totalPrompts = Cardinality(AnalysesOf(u))
        /\ report[i].totalExecutions = Cardinality(ExecutionsOf(u))
NoneCounted(u) == ~HasKey(report, u)

\* C10 as claimed: at every "now", the records of the previous calendar day are
\* left out of the day report and counted in the week, month, year and all
\* reports.
C10_YesterdayAllButDay ==
    \A u \in ReportUsers :
        (rPeriod # "" /\ OnlyYesterday(u)) =>
            IF rPeriod = "day" THEN NoneCounted(u) ELSE AllCounted(u)

\* The window of the period started before today.
StartsBeforeToday(period) ==
    CASE period = "day" -> FALSE
      [] period = "week" -> getDay(rNow) # 0
      [] period = "month" -> getDate(rNow) # 1
      [] period = "year" -> ~(getMonth(rNow) = 0 /\ getDate(rNow) = 1)
      [] OTHER -> TRUE

\* C10 amended: the records of the previous calendar day are left out of the day
\* report and counted in the all report; they are counted in the week report
\* unless today is a Sunday, in the month report unless today is the first of
\* the month, in the year report unless today is 1 January.
C10_YesterdayUnlessWindowStartsToday ==
    \A u \in ReportUsers :
        (rPeriod # "" /\ OnlyYesterday(u)) =>
            IF StartsBeforeToday(rPeriod) THEN AllCounted(u) ELSE NoneCounted(u)

\* C10 witness: today is a Sunday that is no first of a month, a user has
\* records of yesterday only, and the week report has no entry for the user while
\* the month report would (the week started today).
C10_Witness ==
    \E u \in ReportUsers :
        /\ rPeriod = "week"
        /\ getDay(rNow) = 0 /\ getDate(rNow) # 1
        /\ OnlyYesterday(u)
        /\ NoneCounted(u)
        /\ Len(rHistory) + Len(rExecHistory) = 2

\* ============================================================ the App session

\* --- String.prototype.trim and the test !text.trim()
WhiteSpace == {9, 10, 11, 12, 13, 32}
NoTrim(chars) == chars
Trim(chars) ==
    LET kept == {i \in 1..Len(chars) : chars[i] \notin WhiteSpace}
    IN  IF kept = {} THEN <<>>
        ELSE SubSeq(chars, CHOOSE i \in kept : \A j \in kept : i <= j,
                           CHOOSE i \in kept : \A j \in kept : j <= i)
IsEmptyPrompt(text) == Trim(PromptChars[text]) = <<>>

\* What earlier sessions may have left in the database: nothing, or a profile
\* with one analysis of hers, or these and one execution of hers.
PersistedExecutions == {<<>>, <<[id |-> 1, username |-> "alice", timestamp |-> 0,
                               promptType |-> "original", promptText |-> "hi",
                               resultText |-> "ok"]>>}
Persisted ==
    {[s \in StoreNames |-> <<>>]} \union
    {[s \in StoreNames |->
        CASE s = USER_STORE -> <<[id |-> 1, name |-> "alice", createdAt |-> 0]>>
          [] s = HISTORY_STORE ->
                <<[id |-> 1, username |-> "alice", timestamp |-> 0,
                   originalTokenCount |-> 5, optimizedTokenCount |-> 2,
                   savings |-> Savings([originalTokenCount |-> 5,
                                        optimizedTokenCount |-> 2])]>>
          [] OTHER -> executions] : executions \in PersistedExecutions}

\* The names typed into "Create new user...", trimmed by UserManagement.
NewUsernames == {"alice", "Bob"}

InitApp ==
    /\ \E stores \in Persisted : Closed(stores)
    /\ NoReport
    /\ NoSession

\* A click or an input of the user, with the text the handler is given.
UserAction(handler, text) ==
    /\ nActions < MaxActions
    /\ nActions' = nActions + 1
    /\ lastAction' = [handler |-> handler, text |-> text]

\* --- useEffect(() => { loadInitialData() }, []): the three reads are started
\* together, each awaiting its own initDB().
LoadOp(c) ==
    CASE c = "loadUsers" -> "getAllUsers"
      [] c = "loadHistory" -> "getAllHistory"
      [] OTHER -> "getAllExecutionHistory"

loadInitialData ==
    /\ nCalls = 0
    /\ db = 0
    /\ \A c \in LoadCalls : CanCall(c)
    /\ isLoading' = TRUE
    /\ calls' = [c \in CallIds |->
                    IF c \in LoadCalls THEN Opening(LoadOp(c), NoArg) ELSE calls[c]]
    /\ opens' = opens + Len(LoadOrder)
    /\ openQueue' = openQueue \o LoadOrder
    /\ nCalls' = nCalls + Len(LoadOrder)
    /\ UNCHANGED <<db, schemaVars, txQueue, storeVars, clock, faults, histVars>>
    /\ UNCHANGED <<reportVars, prompt, isReportVisible, memoryVars, result, error,
                   analyzing, executeVars, isAdding, aiCalls, actionVars>>

\* The transaction of one of the three reads ends; Promise.all rejects at the
\* first rejection and resolves when the three have resolved.
LoadTx(c) ==
    \/ c = "loadUsers" /\ getAllUsersTx(c)
    \/ c = "loadHistory" /\ getAllHistoryTx(c)
    \/ c = "loadExecutions" /\ getAllExecutionHistoryTx(c)

loadInitialData_settled(c) ==
    /\ LoadTx(c)
    /\ IF calls'[c].settle = "rejected"
       THEN IF \E o \in LoadCalls : calls[o].settle = "rejected"
            THEN UNCHANGED <<memoryVars, isLoading, error>>
            ELSE /\ error' = "Could not load data"
                 /\ isLoading' = FALSE
                 /\ UNCHANGED memoryVars
       ELSE IF \A o \in LoadCalls : calls'[o].settle = "resolved"
            THEN /\ users' = calls'["loadUsers"].result
                 /\ analysisHistory' = calls'["loadHistory"].result
                 /\ executionHistory' = calls'["loadExecutions"].result
                 /\ currentUser' = IF Len(users') > 0 THEN users'[1].name
                                   ELSE currentUser
                 /\ isLoading' = FALSE
                 /\ UNCHANGED error
            ELSE UNCHANGED <<memoryVars, isLoading, error>>
    /\ UNCHANGED <<reportVars, prompt, isReportVisible, result, analyzing,
                   executeVars, isAdding, aiCalls, actionVars>>

\* --- UserManagement.handleAddUser and App.handleAddUser
handleAddUser(name) ==
    /\ ~isLoading /\ ~isAdding
    /\ UserAction("handleAddUser", name)
    /\ isAdding' = TRUE
    /\ addUser("handleAddUser", name)
    /\ UNCHANGED <<reportVars, prompt, isReportVisible, memoryVars, analyzeVars,
                   executeVars, aiCalls>>

handleAddUser_unlisted ==
    /\ addUserTx("handleAddUser")
    /\ IF calls'["handleAddUser"].settle = "resolved"
       THEN /\ currentUser' = calls'["handleAddUser"].result[1].name
            /\ UNCHANGED users
       ELSE UNCHANGED <<users, currentUser>>
    /\ isAdding' = FALSE
    /\ UNCHANGED <<reportVars, prompt, isReportVisible, analysisHistory,
                   executionHistory, analyzeVars, executeVars, aiCalls, actionVars>>

handleAddUser_settled ==
    /\ addUserTx("handleAddUser")
    /\ IF calls'["handleAddUser"].settle = "resolved"
       THEN /\ users' = SortByName(users \o calls'["handleAddUser"].result)
            /\ currentUser' = calls'["handleAddUser"].result[1].name
       ELSE UNCHANGED <<users, currentUser>>
    /\ isAdding' = FALSE
    /\ UNCHANGED <<reportVars, prompt, isReportVisible, analysisHistory,
                   executionHistory, analyzeVars, executeVars, aiCalls, actionVars>>

\* --- the inputs
setCurrentUser(name) ==
    /\ ~isLoading
    /\ \E i \in 1..Len(users) : users[i].name = name
    /\ name # currentUser
    /\ UserAction("setCurrentUser", name)
    /\ currentUser' = name
    /\ UNCHANGED <<dbVars, reportVars, prompt, isReportVisible, users,
                   analysisHistory, executionHistory, analyzeVars, executeVars,
                   isAdding, aiCalls>>

setPrompt(text) ==
    /\ ~isLoading
    /\ text # prompt
    /\ UserAction("setPrompt", text)
    /\ prompt' = text
    /\ UNCHANGED <<dbVars, reportVars, isReportVisible, memoryVars, analyzeVars,
                   executeVars, isAdding, aiCalls>>

setIsReportVisible(visible) ==
    /\ visible # isReportVisible
    /\ UserAction("setIsReportVisible", "")
    /\ isReportVisible' = visible
    /\ UNCHANGED <<dbVars, reportVars, prompt, memoryVars, analyzeVars,
                   executeVars, isAdding, aiCalls>>

\* --- handleAnalyze
handleAnalyze ==
    /\ ~isLoading /\ currentUser # ""
    /\ UserAction("handleAnalyze", prompt)
    /\ IF currentUser = ""
       THEN /\ error' = "Please select or create a user profile first."
            /\ UNCHANGED <<result, isLoading, analyzing, executionResult,
                           executionError, aiCalls>>
       ELSE IF IsEmptyPrompt(prompt)
       THEN /\ error' = "Please enter a prompt to analyze."
            /\ UNCHANGED <<result, isLoading, analyzing, executionResult,
                           executionError, aiCalls>>
       ELSE /\ isLoading' = TRUE
            /\ error' = ""
            /\ result' = <<>>
            /\ executionResult' = ""
            /\ executionError' = ""
            /\ aiCalls' = aiCalls + 1
            /\ analyzing' = [NoRun EXCEPT !.state = "generating",
                                          !.user = currentUser, !.prompt = prompt]
    /\ UNCHANGED <<dbVars, reportVars, prompt, isReportVisible, memoryVars,
                   isExecuting, executing, isAdding>>

\* analyzeAndOptimizePrompt returned: setResult, then addAnalysisRecord is called.
handleAnalyze_analyzed(analysisResult) ==
    /\ analyzing.state = "generating"
    /\ result' = <<analysisResult>>
    /\ addAnalysisRecord("handleAnalyze", analyzing.user,
                         analysisResult.originalTokenCount,
                         analysisResult.optimizedTokenCount)
    /\ analyzing' = [analyzing EXCEPT !.state = "saving"]
    /\ UNCHANGED <<reportVars, prompt, isReportVisible, memoryVars, isLoading, error,
                   executeVars, isAdding, aiCalls, actionVars>>

\* analyzeAndOptimizePrompt threw an Error.
handleAnalyze_retried ==
    /\ analyzing.state = "generating"
    /\ MayFail /\ Fail
    /\ aiCalls' = aiCalls + 1
    /\ UNCHANGED <<db, schemaVars, opens, openQueue, txQueue, storeVars, calls,
                   clock, nCalls, histVars>>
    /\ UNCHANGED <<reportVars, prompt, isReportVisible, memoryVars, analyzeVars,
                   executeVars, isAdding, actionVars>>
handleAnalyze_failed ==
    /\ analyzing.state = "generating"
    /\ MayFail /\ Fail
    /\ error' = "Failed to analyze prompt"
    /\ isLoading' = FALSE
    /\ analyzing' = NoRun
    /\ UNCHANGED <<db, schemaVars, opens, openQueue, txQueue, storeVars, calls,
                   clock, nCalls, histVars>>
    /\ UNCHANGED <<reportVars, prompt, isReportVisible, memoryVars, result,
                   executeVars, isAdding, aiCalls, actionVars>>

\* The record a call was to write, as the caller would build it itself.
Attempted(call) ==
    [id |-> 0, username |-> call.arg.username, timestamp |-> call.at,
     originalTokenCount |-> call.arg.originalTokenCount,
     optimizedTokenCount |-> call.arg.optimizedTokenCount,
     savings |-> Savings(call.arg)]

\* setAnalysisHistory(prev => [...prev, newRecord]) after "await addAnalysisRecord":
\* reached only when the promise resolved.
AppendRegardless(prev, call) ==
    IF call.settle = "resolved" THEN prev \o call.result
    ELSE Append(prev, Attempted(call))
AppendSaved(prev, call) ==
    IF call.settle = "resolved" THEN prev \o call.result ELSE prev

\* The transaction of addAnalysisRecord ended: the promise settles and
\* handleAnalyze goes on, to the append or to the catch, then to the finally.
handleAnalyze_saved ==
    /\ analyzing.state = "saving"
    /\ addAnalysisRecordTx("handleAnalyze")
    /\ analysisHistory' = AppendSaved(analysisHistory, calls'["handleAnalyze"])
    /\ error' = IF calls'["handleAnalyze"].settle = "rejected"
                THEN "An unexpected error occurred." ELSE error
    /\ isLoading' = FALSE
    /\ analyzing' = NoRun
    /\ UNCHANGED <<reportVars, prompt, isReportVisible, users, currentUser,
                   executionHistory, result, executeVars, isAdding, aiCalls,
                   actionVars>>

\* --- handleExecutePrompt
PromptToExecute(type) == IF type = "original" THEN prompt ELSE result[1].optimizedPrompt

handleExecutePrompt(type) ==
    /\ result # <<>> /\ isExecuting = "" /\ executing.state = "idle"
    /\ UserAction("handleExecutePrompt", PromptToExecute(type))
    /\ IF IsEmptyPrompt(PromptToExecute(type))
       THEN /\ executionError' = "Prompt is empty."
            /\ UNCHANGED <<isExecuting, executionResult, executing, aiCalls>>
       ELSE /\ isExecuting' = type
            /\ executionResult' = ""
            /\ executionError' = ""
            /\ aiCalls' = aiCalls + 1
            /\ executing' = [state |-> "generating", user |-> currentUser,
                             prompt |-> PromptToExecute(type), type |-> type]
    /\ UNCHANGED <<dbVars, reportVars, prompt, isReportVisible, memoryVars,
                   analyzeVars, isAdding>>

\* executePrompt returned: setExecutionResult, then addExecutionRecord is called.
handleExecutePrompt_executed ==
    /\ executing.state = "generating"
    /\ executionResult' = "ok"
    /\ addExecutionRecord("handleExecutePrompt", executing.user, executing.type,
                          executing.prompt, "ok")
    /\ executing' = [executing EXCEPT !.state = "saving"]
    /\ UNCHANGED <<reportVars, prompt, isReportVisible, memoryVars, analyzeVars,
                   isExecuting, executionError, isAdding, aiCalls, actionVars>>

\* executePrompt threw an Error.
handleExecutePrompt_failed ==
    /\ executing.state = "generating"
    /\ MayFail /\ Fail
    /\ executionError' = "Failed to execute prompt"
    /\ isExecuting' = ""
    /\ executing' = NoRun
    /\ UNCHANGED <<db, schemaVars, opens, openQueue, txQueue, storeVars, calls,
                   clock, nCalls, histVars>>
    /\ UNCHANGED <<reportVars, prompt, isReportVisible, memoryVars, analyzeVars,
                   executionResult, isAdding, aiCalls, actionVars>>

\* setExecutionHistory(prev => [newRecord, ...prev])
PrependSaved(prev, call) ==
    IF call.settle = "resolved" THEN call.result \o prev ELSE prev

handleExecutePrompt_saved ==
    /\ executing.state = "saving"
    /\ addExecutionRecordTx("handleExecutePrompt")
    /\ executionHistory' = PrependSaved(executionHistory, calls'["handleExecutePrompt"])
    /\ executionError' = IF calls'["handleExecutePrompt"].settle = "rejected"
                         THEN "An unexpected error occurred during execution."
                         ELSE executionError
    /\ isExecuting' = ""
    /\ executing' = NoRun
    /\ UNCHANGED <<reportVars, prompt, isReportVisible, users, currentUser,
                   analysisHistory, analyzeVars, executionResult, isAdding, aiCalls,
                   actionVars>>

\* --- handleClearReport (the user confirms)
handleClearReport ==
    /\ isReportVisible /\ Len(analysisHistory) > 0
    /\ UserAction("handleClearReport", "")
    /\ clearAllData("handleClearReport")
    /\ UNCHANGED <<reportVars, prompt, isReportVisible, memoryVars, analyzeVars,
                   executeVars, isAdding, aiCalls>>

handleClearReport_settled ==
    /\ clearAllDataTx("handleClearReport")
    /\ IF calls'["handleClearReport"].settle = "resolved"
       THEN /\ users' = <<>>
            /\ analysisHistory' = <<>>
            /\ executionHistory' = <<>>
            /\ currentUser' = ""
            /\ isReportVisible' = FALSE
            /\ UNCHANGED error
       ELSE IF calls'["handleClearReport"].settle = "rejected"
       THEN /\ error' = "Could not clear data"
            /\ UNCHANGED <<memoryVars, isReportVisible>>
       ELSE UNCHANGED <<memoryVars, isReportVisible, error>>
    /\ UNCHANGED <<reportVars, prompt, result, isLoading, analyzing, executeVars,
                   isAdding, aiCalls, actionVars>>

\* --- handleClearPrompt
handleClearPrompt ==
    /\ prompt # "" \/ result # <<>>
    /\ UserAction("handleClearPrompt", "")
    /\ prompt' = ""
    /\ result' = <<>>
    /\ error' = ""
    /\ executionResult' = ""
    /\ executionError' = ""
    /\ isExecuting' = ""
    /\ UNCHANGED <<dbVars, reportVars, isReportVisible, memoryVars, isLoading,
                   analyzing, executing, isAdding, aiCalls>>

NextApp ==
    \/ loadInitialData
    \/ initDB_onsuccess /\ UNCHANGED idleVars
    \/ \E c \in LoadCalls : loadInitialData_settled(c)
    \/ \E name \in NewUsernames : handleAddUser(name)
    \/ handleAddUser_settled
    \/ \E name \in Names : setCurrentUser(name)
    \/ \E text \in Prompts : setPrompt(text)
    \/ \E visible \in BOOLEAN : setIsReportVisible(visible)
    \/ handleAnalyze
    \/ \E analysisResult \in AnalysisResults : handleAnalyze_analyzed(analysisResult)
    \/ handleAnalyze_failed
    \/ handleAnalyze_saved
    \/ \E type \in {"original", "optimized"} : handleExecutePrompt(type)
    \/ handleExecutePrompt_executed
    \/ handleExecutePrompt_failed
    \/ handleExecutePrompt_saved
    \/ handleClearReport
    \/ handleClearReport_settled
    \/ handleClearPrompt

SpecApp == InitApp /\ [][NextApp]_vars

\* ===================================================== claims on the session

\* The transaction of the addAnalysisRecord call of handleAnalyze ends in this step.
AnalysisWriteEnds ==
    /\ calls["handleAnalyze"].state = "queued"
    /\ calls'["handleAnalyze"].state = "done"

\* The records the in-memory analysis history holds after the step and not before.
NewInMemory == Range(analysisHistory') \ Range(analysisHistory)

OnlyWhiteSpace(text) ==
    \A i \in 1..Len(PromptChars[text]) : PromptChars[text][i] \in WhiteSpace

\* The step is the user action that invokes the handler.
Invoked(handler) == nActions' = nActions + 1 /\ lastAction'.handler = handler

\* C9: when handleAnalyze or handleExecutePrompt is invoked with a prompt text
\* that is empty or white space only, the step makes no call to the generation
\* client and none to the store, writes no record, and leaves the store and
\* the in-memory users, analysis history and execution history unchanged.
C9_EmptyPromptNoCall ==
    [][((Invoked("handleAnalyze") \/ Invoked("handleExecutePrompt"))
            /\ OnlyWhiteSpace(lastAction'.text)) =>
          /\ aiCalls' = aiCalls
          /\ UNCHANGED <<dbVars, memoryVars>>]_vars

\* C9 witness: after an analysis whose rewrite is white space only, "Execute
\* Optimized" was clicked: the handler returned with "Prompt is empty." and the
\* only generation call made is the one of the analysis.
C9_Witness ==
    /\ lastAction = [handler |-> "handleExecutePrompt", text |-> "  "]
    /\ executionError = "Prompt is empty."
    /\ isExecuting = ""
    /\ aiCalls = 1
    /\ executionHistory = <<>>

\* ------------------------------------------- claims on the report's entries

\* The records of user u in the list whose timestamp is in the window of the
\* report computed.
Qualifying(list, u) ==
    SelectSeq(list, LAMBDA r : r.username = u /\ r.timestamp >= startTime(rPeriod, rNow))

RECURSIVE Total(_, _)
Total(list, field) ==
    IF list = <<>> THEN 0 ELSE Head(list)[field] + Total(Tail(list), field)

\* C11: in the report computed, the entry of every user u counts the analysis
\* records of u with timestamp >= windowStart (totalPrompts) and sums their
\* originalTokenCount, optimizedTokenCount and savings, and counts the
\* execution records of u with timestamp >= windowStart (totalExecutions);
\* older records add nothing.
C11_TotalsOverWindow ==
    rPeriod # "" =>
        \A i \in 1..Len(report) :
            LET u == report[i].username
                qa == Qualifying(rHistory, u)
                qe == Qualifying(rExecHistory, u)
            IN  /\ report[i].totalPrompts = Len(qa)
                /\ report[i].totalOriginalTokens = Total(qa, "originalTokenCount")
                /\ report[i].totalOptimizedTokens = Total(qa, "optimizedTokenCount")
                /\ report[i].totalSavings = Total(qa, "savings")
                /\ report[i].totalExecutions = Len(qe)

\* C11 witness: a user has an analysis with negative savings at the very start
\* of the day window and an older one; the day report counts the one only.
C11_Witness ==
    /\ rPeriod = "day"
    /\ Len(rHistory) = 2
    /\ rHistory[1].username = "Bob" /\ rHistory[2].username = "Bob"
    /\ rHistory[1].timestamp < startTime("day", rNow)
    /\ rHistory[2].timestamp = startTime("day", rNow)
    /\ Len(report) = 1
    /\ report[1].totalPrompts = 1
    /\ report[1].totalSavings < 0

\* C19: the report computed has an entry (one only) for user u exactly when an
\* analysis or an execution record of u has timestamp >= windowStart; a user
\* with qualifying execution records only has totalPrompts and the token totals
\* at 0.
C19_EntryIffQualifying ==
    rPeriod # "" =>
        \A u \in ReportUsers :
            LET qa == Qualifying(rHistory, u)
                qe == Qualifying(rExecHistory, u)
                entries == {i \in 1..Len(report) : report[i].username = u}
            IN  /\ Cardinality(entries) = IF qa # <<>> \/ qe # <<>> THEN 1 ELSE 0
                /\ (qa = <<>> /\ qe # <<>>) =>
                      \A i \in entries :
                          /\ report[i].totalPrompts = 0
                          /\ report[i].totalOriginalTokens = 0
                          /\ report[i].totalOptimizedTokens = 0
                          /\ report[i].totalSavings = 0
                          /\ report[i].totalExecutions = Len(qe)

\* C19 witness: one user has an execution in the window and no analysis, the
\* other an analysis older than the window: the report has the one entry of the
\* first, with no prompt counted.
C19_Witness ==
    /\ rPeriod = "week"
    /\ Len(rHistory) = 1 /\ Len(rExecHistory) = 1
    /\ rHistory[1].username = "alice"
    /\ rHistory[1].timestamp < startTime("week", rNow)
    /\ rExecHistory[1].username = "Bob"
    /\ rExecHistory[1].timestamp >= startTime("week", rNow)
    /\ Len(report) = 1
    /\ report[1].username = "Bob"
    /\ report[1].totalPrompts = 0
    /\ report[1].totalExecutions = 1

\* ================================================= the schema across startups

\* A record an earlier session left in an object store.
LeftIn(s) ==
    CASE s = USER_STORE -> [id |-> 1, name |-> "alice", createdAt |-> 0]
      [] s = HISTORY_STORE ->
            [id |-> 1, username |-> "alice", timestamp |-> 0,
             originalTokenCount |-> 5, optimizedTokenCount |-> 2, savings |-> 3]
      [] OTHER ->
            [id |-> 1, username |-> "alice", timestamp |-> 0,
             promptType |-> "original", promptText |-> "hi", resultText |-> "ok"]

\* The database an earlier version of the program left: none, or one of a
\* lower version with some of the object stores, the obsolete one perhaps, and
\* records in those it has.
InitSchema ==
    /\ \E version \in 0..(DB_VERSION - 1) :
       \E names \in SUBSET (StoreNames \cup {OBSOLETE_STORE}) :
       \E filled \in SUBSET (names \cap StoreNames) :
          /\ version = 0 => names = {}
          /\ ClosedOn(version, names,
                      [s \in StoreNames |-> IF s \in filled THEN <<LeftIn(s)>> ELSE <<>>])
    /\ NoReport
    /\ NoSession

\* The page is loaded anew: the module starts over with db unset; the database
\* stays.
Reload ==
    /\ db # 0
    /\ \A c \in CallIds : ~InFlight(c)
    /\ db' = 0
    /\ calls' = [c \in CallIds |-> IdleCall]
    /\ UNCHANGED <<schemaVars, opens, openQueue, txQueue, storeVars, clock, nCalls,
                   faults, histVars>>

NextSchema ==
    \/ \E c \in Callers : MayCall(c) /\ getAllUsers(c) /\ UNCHANGED idleVars
    \/ \E c \in Callers : MayCall(c) /\ getAllHistory(c) /\ UNCHANGED idleVars
    \/ initDB_onsuccess /\ UNCHANGED idleVars
    \/ \E c \in Callers : getAllUsersTx(c) /\ UNCHANGED idleVars
    \/ \E c \in Callers : getAllHistoryTx(c) /\ UNCHANGED idleVars
    \/ Reload /\ UNCHANGED idleVars

SpecSchema == InitSchema /\ [][NextSchema]_vars

\* An open request is answered in this step.
OpenAnswered == Len(openQueue') < Len(openQueue)

\* C12: whatever database an earlier version left (none, or a lower version
\* with any of the three object stores and perhaps usageReports), an open
\* leaves the database at the current version with exactly users,
\* analysisHistory and executionHistory, every record kept; an open of a
\* database that is current already runs no upgrade and changes no object store.
C12_UpgradeIdempotent ==
    [][OpenAnswered =>
          /\ db' # 0
          /\ dbVersion' = DB_VERSION
          /\ objectStoreNames' = StoreNames
          /\ objectStores' = objectStores
          /\ dbVersion = DB_VERSION =>
                (objectStoreNames' = objectStoreNames /\ upgrades' = upgrades)]_vars

\* C12 witness: the one caller opened the database twice (a reload between):
\* one upgrade pass ran, the profile of before is there still.
C12_Witness ==
    /\ opens = 2
    /\ db = 2
    /\ calls["c2"].state = "idle"
    /\ upgrades = 1
    /\ objectStoreNames = StoreNames
    /\ dbVersion = DB_VERSION
    /\ Len(userStore) = 1
    /\ historyStore = <<>>

\* ===================================================== claims on the session

\* C13: the database is opened at most once in the lifetime of the page, also
\* when several dbService functions are called before the first open is
\* answered (the three reads of loadInitialData): at most one indexedDB.open
\* request is ever issued, so db is set once and every call uses that connection.
C13_OpenedAtMostOnce == opens <= 1

\* ================================================ more claims on the store

\* The object stores the step changes.
Changed == {s \in StoreNames : objectStores'[s] # objectStores[s]}

\* C14: a step of the store changes no record that is stored: it either leaves
\* the three object stores as they are, or is the commit of an add function,
\* which puts one new record (a new id) after the records of its own store and
\* leaves the other two stores alone, or is the commit of clearAllData, which
\* empties the three.
C14_RecordsImmutable ==
    [][\/ Changed = {}
       \/ \E c \in CallIds :
             /\ calls[c].op \in AddOps /\ Runs(c) /\ calls'[c].outcome = "commit"
             /\ Changed = {StoreOf(calls[c].op)}
             /\ LET before == objectStores[StoreOf(calls[c].op)]
                    after == objectStores'[StoreOf(calls[c].op)]
                IN  /\ Len(after) = Len(before) + 1
                    /\ SubSeq(after, 1, Len(before)) = before
                    /\ \A i \in 1..Len(before) : before[i].id # after[Len(after)].id
       \/ \E c \in CallIds :
             /\ calls[c].op = "clearAllData" /\ Runs(c) /\ calls'[c].outcome = "commit"
             /\ \A s \in StoreNames : objectStores'[s] = <<>>]_vars

\* C14 witness: two profiles and an analysis record were added one after the
\* other; the first profile is as it was returned.
C14_Witness ==
    /\ Len(userStore) = 2
    /\ Len(historyStore) = 1
    /\ executionStore = <<>>
    /\ userStore[1].id = 1 /\ userStore[2].id = 2
    /\ generation = 0

\* ------------------------------------------------ claims on the session, 2

\* The dbService call of the handler is started in this step.
WriteStarts(c) == ~InFlight(c) /\ calls'[c].state \in {"opening", "queued"}

\* The run of the handler ends in this step on a failure: the generation client
\* threw, or the write was rejected.
AnalyzeFails ==
    \/ analyzing.state = "generating" /\ analyzing'.state = "idle"
    \/ Runs("handleAnalyze") /\ calls'["handleAnalyze"].settle = "rejected"
ExecuteFails ==
    \/ executing.state = "generating" /\ executing'.state = "idle"
    \/ Runs("handleExecutePrompt") /\ calls'["handleExecutePrompt"].settle = "rejected"

\* C15: the generation client is called only in the step of a click on Analyze or
\* Execute, once; addAnalysisRecord (addExecutionRecord) is called only when the
\* generation call of the run returned, once in the run; the step in which a
\* run fails makes no call and ends the run; and the write of a run that commits
\* puts exactly one record in its object store.
C15_OneCallNoRetry ==
    [][/\ aiCalls' # aiCalls =>
             /\ aiCalls' = aiCalls + 1
             /\ Invoked("handleAnalyze") \/ Invoked("handleExecutePrompt")
       /\ WriteStarts("handleAnalyze") =>
             /\ analyzing.state = "generating" /\ analyzing'.state = "saving"
             /\ calls'["handleAnalyze"].op = "addAnalysisRecord"
             /\ nCalls' = nCalls + 1 /\ aiCalls' = aiCalls
       /\ WriteStarts("handleExecutePrompt") =>
             /\ executing.state = "generating" /\ executing'.state = "saving"
             /\ calls'["handleExecutePrompt"].op = "addExecutionRecord"
             /\ nCalls' = nCalls + 1 /\ aiCalls' = aiCalls
       /\ AnalyzeFails =>
             /\ analyzing' = NoRun /\ aiCalls' = aiCalls /\ nCalls' = nCalls
       /\ ExecuteFails =>
             /\ executing' = NoRun /\ aiCalls' = aiCalls /\ nCalls' = nCalls
       /\ (Runs("handleAnalyze") /\ calls'["handleAnalyze"].outcome = "commit") =>
             /\ Len(historyStore') = Len(historyStore) + 1
             /\ analyzing' = NoRun
       /\ (Runs("handleExecutePrompt")
              /\ calls'["handleExecutePrompt"].outcome = "commit") =>
             /\ Len(executionStore') = Len(executionStore) + 1
             /\ executing' = NoRun]_vars

\* C15 witness: an analysis was made and saved, then the generation client
\* threw on Execute: two calls to the client in all, one record written, no
\* run in progress.
C15_Witness ==
    /\ aiCalls = 2
    /\ lastAction.handler = "handleExecutePrompt"
    /\ executionError = "Failed to execute prompt"
    /\ executing = NoRun /\ analyzing = NoRun
    /\ calls["handleAnalyze"].outcome = "commit"
    /\ calls["handleExecutePrompt"].state = "idle"
    /\ executionStore = <<>>

\* C16: when a run of handleAnalyze or handleExecutePrompt fails (the generation
\* client threw, or the write was rejected), nothing of the run is left: its
\* object store and the in-memory history are as before the step, and no
\* analysis result (execution result) of the run is displayed.
C16_FailureLeavesNothing ==
    [][/\ AnalyzeFails =>
             /\ historyStore' = historyStore
             /\ analysisHistory' = analysisHistory
             /\ result' = <<>>
       /\ ExecuteFails =>
             /\ executionStore' = executionStore
             /\ executionHistory' = executionHistory
             /\ executionResult' = ""]_vars

\* ------------------------------------------------------ claims on the export

\* C17: exportReportToCsv on a report without users shows "No data to export."
\* and downloads nothing; on a report with users it downloads the header of 7
\* columns followed by one row of 7 cells per user, in the order of the keys of
\* the report.
C17_ExportRows ==
    exported # NoExport =>
        IF Len(report) = 0
        THEN exported.alert = "No data to export." /\ exported.download = <<>>
        ELSE /\ exported.alert = ""
             /\ Len(exported.download) = Len(report) + 1
             /\ exported.download[1] = headers
             /\ Len(headers) = 7
             /\ \A i \in 1..Len(report) :
                   /\ Len(exported.download[i + 1]) = 7
                   /\ exported.download[i + 1][1] = Quoted(report[i].username)
                   /\ exported.download[i + 1][2] = report[i].totalPrompts
                   /\ exported.download[i + 1][3] = report[i].totalExecutions
                   /\ exported.download[i + 1][6] = report[i].totalSavings

\* C17 witness: the report has two users, Bob's key before alice's, and the
\* file downloaded has the header and their two rows in that order.
C17_Witness ==
    /\ Len(report) = 2
    /\ report[1].username = "Bob" /\ report[2].username = "alice"
    /\ Len(exported.download) = 3
    /\ exported.download[2][1] = Quoted("Bob")

\* ------------------------------------------ claims on the order held in memory

Ascending(records) ==
    \A i, j \in 1..Len(records) : i < j => records[i].id < records[j].id

\* The write of the run ends and its promise resolves with the stored record.
AnalyzeSaved ==
    /\ Runs("handleAnalyze") /\ calls'["handleAnalyze"].op = "addAnalysisRecord"
    /\ calls'["handleAnalyze"].settle = "resolved"
ExecuteSaved ==
    /\ Runs("handleExecutePrompt")
    /\ calls'["handleExecutePrompt"].op = "addExecutionRecord"
    /\ calls'["handleExecutePrompt"].settle = "resolved"

\* C18: when a run of handleAnalyze or handleExecutePrompt has its record
\* saved, the record returned is put after all the records the in-memory
\* history of its kind holds, and each in-memory history is in ascending id.
C18_AppendedInCreationOrder ==
    [][/\ AnalyzeSaved =>
             analysisHistory' = analysisHistory \o calls'["handleAnalyze"].result
       /\ ExecuteSaved =>
             executionHistory' = executionHistory \o calls'["handleExecutePrompt"].result
       /\ Ascending(analysisHistory')
       /\ Ascending(executionHistory')]_vars

\* ------------------------------------------- claims on memory and the store

\* No store operation and no generation call of the session is in flight, and
\* the initial load is over.
Quiescent ==
    /\ \A c \in CallIds : ~InFlight(c)
    /\ analyzing.state = "idle" /\ executing.state = "idle"
    /\ ~isLoading /\ ~isAdding

SameRecords(held, stored) ==
    Len(held) = Len(stored) /\ Range(held) = Range(stored)

\* C20: whenever nothing is in flight, the users, the analysis history and the
\* execution history held in memory are exactly the records of the three
\* object stores.
C20_MemoryMirrorsStore ==
    Quiescent =>
        /\ SameRecords(users, userStore)
        /\ SameRecords(analysisHistory, historyStore)
        /\ SameRecords(executionHistory, executionStore)

\* --------------------------------------------- claims on the savings reported

\* C21: in every report computed from analysis records built by
\* addAnalysisRecord, for every period, the totalSavings of each user is the
\* totalOriginalTokens less the totalOptimizedTokens of that user.
C21_SavingsIsDifference ==
    rPeriod # "" =>
        \A i \in 1..Len(report) :
            report[i].totalSavings =
                report[i].totalOriginalTokens - report[i].totalOptimizedTokens

\* C21 witness: the report sums two analyses of one user, each a longer
\* rewrite: 4 tokens became 10, the savings reported are -6.
C21_Witness ==
    /\ rPeriod # ""
    /\ Len(report) = 1
    /\ report[1].totalPrompts = 2
    /\ report[1].totalOriginalTokens = 4
    /\ report[1].totalOptimizedTokens = 10
    /\ report[1].totalSavings = -6

\* ============================== the session once an analysis is displayed

\* The database of the earlier session: alice's profile and one analysis.
ProfileAndAnalysis ==
    CHOOSE stores \in Persisted :
        stores[USER_STORE] # <<>> /\ stores[EXECUTION_STORE] = <<>>

\* The call has ended, committed and resolved with the value.
Resolved(op, arg, value) ==
    [IdleCall EXCEPT !.op = op, !.arg = arg, !.state = "done",
                     !.outcome = "commit", !.settle = "resolved", !.result = value]

\* The analysis displayed, and its record as addAnalysisRecord stored it.
Displayed == CHOOSE r \in AnalysisResults : r.optimizedPrompt = "hi"
SavedAnalysis ==
    [id |-> 2, username |-> "alice", timestamp |-> 0,
     originalTokenCount |-> Displayed.originalTokenCount,
     optimizedTokenCount |-> Displayed.optimizedTokenCount,
     savings |-> Savings(Displayed)]

\* The page has loaded the database above (three connections opened by the
\* three reads), alice is the current user, the prompt "hi" was analyzed and the
\* record saved: the result is displayed and nothing is in flight.
Analyzed ==
    /\ db = 3 /\ opens = 3
    /\ dbVersion = DB_VERSION /\ objectStoreNames = StoreNames /\ upgrades = 0
    /\ openQueue = <<>> /\ txQueue = <<>>
    /\ objectStores = [ProfileAndAnalysis EXCEPT ![HISTORY_STORE] = @ \o <<SavedAnalysis>>]
    /\ keyGen = [s \in StoreNames |-> Len(objectStores[s]) + 1]
    /\ calls = [c \in CallIds |->
          CASE c = "loadUsers" ->
                  Resolved("getAllUsers", NoArg, ProfileAndAnalysis[USER_STORE])
            [] c = "loadHistory" ->
                  Resolved("getAllHistory", NoArg, ProfileAndAnalysis[HISTORY_STORE])
            [] c = "loadExecutions" ->
                  Resolved("getAllExecutionHistory", NoArg, <<>>)
            [] c = "handleAnalyze" ->
                  Resolved("addAnalysisRecord",
                           [NoArg EXCEPT !.username = "alice",
                               !.originalTokenCount = Displayed.originalTokenCount,
                               !.optimizedTokenCount = Displayed.optimizedTokenCount],
                           <<SavedAnalysis>>)
            [] OTHER -> IdleCall]
    /\ clock = 0 /\ nCalls = 4 /\ faults = 0 /\ generation = 0
    /\ assigned = [s \in StoreNames |-> {r.id : r \in Range(objectStores[s])}]
    /\ addedUsers = Range(ProfileAndAnalysis[USER_STORE])
    /\ lastWrite = "add"
    /\ NoReport
    /\ prompt = "hi"
    /\ users = ProfileAndAnalysis[USER_STORE]
    /\ currentUser = "alice"
    /\ analysisHistory = ProfileAndAnalysis[HISTORY_STORE] \o <<SavedAnalysis>>
    /\ executionHistory = <<>>
    /\ result = <<Displayed>>
    /\ isLoading = FALSE /\ error = "" /\ isReportVisible = FALSE
    /\ isExecuting = "" /\ executionResult = "" /\ executionError = ""
    /\ isAdding = FALSE
    /\ analyzing = NoRun /\ executing = NoRun
    /\ aiCalls = 1

\* The session goes on from there with MaxActions further actions of the user.
InitSession == Analyzed /\ nActions = 0 /\ lastAction = NoAction

NextSession ==
    \/ \E name \in NewUsernames : handleAddUser(name)
    \/ handleAddUser_settled
    \/ \E name \in Names : setCurrentUser(name)
    \/ \E text \in Prompts : setPrompt(text)
    \/ \E visible \in BOOLEAN : setIsReportVisible(visible)
    \/ handleAnalyze
    \/ \E analysisResult \in AnalysisResults : handleAnalyze_analyzed(analysisResult)
    \/ handleAnalyze_failed
    \/ handleAnalyze_saved
    \/ \E type \in {"original", "optimized"} : handleExecutePrompt(type)
    \/ handleExecutePrompt_executed
    \/ handleExecutePrompt_failed
    \/ handleExecutePrompt_saved
    \/ handleClearReport
    \/ handleClearReport_settled
    \/ handleClearPrompt

SpecSession == InitSession /\ [][NextSession]_vars

\* ------------------------------------------------ claims on the session, 3

\* C22: when handleAnalyze or handleExecutePrompt starts the write of its
\* record, the username it passes is not empty, and no record of the
\* analysisHistory or executionHistory store has an empty username.
C22_NoEmptyUsername ==
    [][/\ \A c \in {"handleAnalyze", "handleExecutePrompt"} :
             WriteStarts(c) => calls'[c].arg.username # ""
       /\ \A r \in Range(historyStore') \cup Range(executionStore') :
             r.username # ""]_vars

\* The current user is no one, or a profile of the in-memory users list.
Listed(name, list) == \E i \in 1..Len(list) : list[i].name = name
CurrentUserListed == currentUser = "" \/ Listed(currentUser, users)

\* The three reads of the initial load have resolved in this step.
LoadResolves ==
    /\ \E c \in LoadCalls : Runs(c)
    /\ \A c \in LoadCalls : calls'[c].state = "done" /\ calls'[c].settle = "resolved"

\* C23: the current user is always "" or the name of a profile of the in-memory
\* users list.  It becomes the first loaded profile when the initial load
\* resolves with profiles, the new profile when addUser resolves, a listed
\* profile on selection and "" when clear-all resolves; when addUser is
\* rejected the users list and the current user are as before.
C23_CurrentUserListed ==
    /\ []CurrentUserListed
    /\ [][/\ LoadResolves =>
                /\ users' = calls'["loadUsers"].result
                /\ currentUser' = IF users' = <<>> THEN currentUser ELSE users'[1].name
          /\ (Runs("handleAddUser") /\ calls'["handleAddUser"].settle = "resolved") =>
                /\ currentUser' = calls'["handleAddUser"].result[1].name
                /\ calls'["handleAddUser"].result[1] \in Range(users')
          /\ (Runs("handleAddUser") /\ calls'["handleAddUser"].settle = "rejected") =>
                /\ users' = users
                /\ currentUser' = currentUser
          /\ (Runs("handleClearReport")
                 /\ calls'["handleClearReport"].settle = "resolved") =>
                /\ users' = <<>>
                /\ currentUser' = ""
          /\ lastAction'.handler = "setCurrentUser" /\ nActions' # nActions =>
                /\ currentUser' = lastAction'.text
                /\ Listed(currentUser', users)]_vars

\* C23 witness: Bob was added and became the current user, alice was selected
\* again, and a second add of "alice" was rejected: both profiles are listed
\* and alice is still the current user.
C23_Witness ==
    /\ lastAction = [handler |-> "handleAddUser", text |-> "alice"]
    /\ calls["handleAddUser"].state = "done"
    /\ calls["handleAddUser"].settle = "rejected"
    /\ Len(users) = 2
    /\ Listed("Bob", users)
    /\ currentUser = "alice"
    /\ ~isAdding

====
